---- MODULE Spec2Model ----
(***************************************************************************)
(* Model of the /analyze request handler of src/app.py: one linear         *)
(* pipeline (download, upload, inference, JSON decoding, defaulting)       *)
(* inside a single try/except/finally, followed by the cleanup of the      *)
(* local media file and of the remote object.                              *)
(*                                                                         *)
(* The external calls (yt-dlp, the storage client, the model client,       *)
(* os.remove) are the environment: each of them either succeeds or raises, *)
(* chosen nondeterministically.                                            *)
(*                                                                         *)
(* String literals of the source that are not ASCII are written here in    *)
(* English: SENTINEL_RISK stands for the literal of line 177, PromptMsg    *)
(* for the literal of line 107, the prefix in DownloadFailedMsg for the    *)
(* literal of line 137 and MissingFileMsg for the literal of line 141.     *)
(***************************************************************************)
EXTENDS Integers, Sequences, FiniteSets, TLC

\* ---------------------------------------------------------------- bounds
\* number of requests that may be inside analyze() at the same time
NumRequests == 2

Requests == 1 .. NumRequests
\* the request of the sequential specification
SingleRequest == {1}
\* the values uuid.uuid4() can return
Ids == 1 .. NumRequests

\* ------------------------------------------------------- python values
\* None for local_video_path / gcs_blob_name / gcs_uri (lines 109-111)
NoneId == 0

\* request.form.get('youtube_url') when the field is absent
AbsentUrl == "<None>"
Urls == {AbsentUrl, "", "https://youtu.be/v"}

\* line 106: `not youtube_url`
IsFalsyStrict(url) == url = AbsentUrl
IsFalsy(url) == url \in {AbsentUrl, ""}

\* error messages are tuples of strings (str(e), or a prefix and str(e))
NoMsg == << >>
PromptMsg == <<"Please enter a YouTube URL.">>
MissingFileMsg == <<"yt-dlp: download failed (no file was created).">>
DownloadFailedMsg(e) == <<"yt-dlp download failed: ", e>>
StrOf(e) == <<e>>

\* line 177 and line 179
SENTINEL_RISK == "no risk mentioned"
DEFAULT_SCORE == 5

\* ------------------------------------------------- the model's answers
RiskKey == "mentioned_risk"
ScoreKey == "credibility_score"
NameKey == "stock_name"

EmptyMap == << >>
RiskPart == {EmptyMap, RiskKey :> "rates may rise", RiskKey :> ""}
ScorePart == {EmptyMap, ScoreKey :> 8, ScoreKey :> 0}
NamePart == {NameKey :> "ACME"}
\* JSON objects the model may answer with
Mappings == {a @@ b @@ c : a \in RiskPart, b \in ScorePart, c \in NamePart}

\* a python value: a dict, a list, a number, or None
NoneValue == [kind |-> "None", map |-> EmptyMap]
DictValue(m) == [kind |-> "dict", map |-> m]
ListValue == [kind |-> "list", map |-> EmptyMap]
NumberValue == [kind |-> "number", map |-> EmptyMap]

\* video_extraction_response.text: a JSON document, or text that is not JSON
MalformedText == [kind |-> "malformed", map |-> EmptyMap]
NoText == [kind |-> "none", map |-> EmptyMap]
ModelTexts == {[kind |-> "object", map |-> m] : m \in Mappings}
                \cup {[kind |-> "array", map |-> EmptyMap],
                      [kind |-> "number", map |-> EmptyMap],
                      MalformedText}
\* the answers used when several requests run concurrently
ConcTexts == {[kind |-> "object", map |-> NameKey :> "ACME"], MalformedText}

\* line 173: json.loads; defined on every text but the malformed one
JsonDecodable(t) == t.kind \in {"object", "array", "number"}
json_loads(t) ==
    CASE t.kind = "object" -> DictValue(t.map)
      [] t.kind = "array" -> ListValue
      [] t.kind = "number" -> NumberValue

\* lines 176-179 on a dict
SetItem(m, k, v) == [x \in DOMAIN m \cup {k} |-> IF x = k THEN v ELSE m[x]]

NormalizeFalsy(m) ==
    LET m1 == IF RiskKey \notin DOMAIN m \/ m[RiskKey] = ""
              THEN SetItem(m, RiskKey, SENTINEL_RISK) ELSE m
    IN IF ScoreKey \notin DOMAIN m1 \/ m1[ScoreKey] = 0
       THEN SetItem(m1, ScoreKey, DEFAULT_SCORE) ELSE m1

NormalizeElif(m) ==
    IF RiskKey \notin DOMAIN m THEN SetItem(m, RiskKey, SENTINEL_RISK)
    ELSE IF ScoreKey \notin DOMAIN m THEN SetItem(m, ScoreKey, DEFAULT_SCORE)
    ELSE m

Normalize(m) ==
    LET m1 == IF RiskKey \notin DOMAIN m
              THEN SetItem(m, RiskKey, SENTINEL_RISK) ELSE m
    IN IF ScoreKey \notin DOMAIN m1
       THEN SetItem(m1, ScoreKey, DEFAULT_SCORE) ELSE m1

\* lines 176-179 raise TypeError on a list (item assignment with a str
\* index) and on a number (`in` on a non-iterable)
DefaultingRaises(v) == v.kind # "dict"

\* ------------------------------------------------------ rendered views
\* the keyword arguments given to render_template('index.html', ...)
NoResponse == [error |-> NoMsg, results |-> NoneValue, youtube_url |-> AbsentUrl,
               rendered |-> FALSE]
\* line 107
PromptView == [error |-> PromptMsg, results |-> NoneValue,
               youtube_url |-> AbsentUrl, rendered |-> TRUE]
\* line 181
ResultsView(v, url) == [error |-> NoMsg, results |-> v, youtube_url |-> url,
                        rendered |-> TRUE]
\* line 185
ErrorView(msg, url) == [error |-> msg, results |-> NoneValue,
                        youtube_url |-> url, rendered |-> TRUE]

\* ------------------------------------------------------------- state
\* req:     per request, the locals of analyze() and its position
\* files:   the paths that exist in the temporary directory
\* objects: the blob names that exist in the bucket
\* usedIds: the identifiers uuid4 has already handed out
VARIABLES req, files, objects, usedIds

vars == <<req, files, objects, usedIds>>

\* line 120: uuid.uuid4() returns an identifier never returned before
Uuid4(used) == Ids \ used

InitialRequest ==
    [pc |-> "idle",
     youtube_url |-> AbsentUrl,
     local_video_path |-> NoneId,
     gcs_blob_name |-> NoneId,
     gcs_uri |-> NoneId,
     response_text |-> NoText,
     results_data |-> NoneValue,
     response |-> NoResponse,
     \* history: what the environment did, and the calls made so far
     dl |-> "none",
     failed |-> "none",
     cleanupFailed |-> "none",
     inferSaw |-> FALSE,
     wrote |-> {},
     trace |-> << >>]

Init ==
    /\ req = [r \in Requests |-> InitialRequest]
    /\ files = {}
    /\ objects = {}
    /\ usedIds = {}

Set(r, new) == req' = [req EXCEPT ![r] = new]

\* lines 183-185: the except clause renders the error view; the finally
\* clause runs next
ExceptRetry(q, stage, msg) ==
    IF Len(q.trace) < 2
    THEN [q EXCEPT !.failed = stage]
    ELSE [q EXCEPT !.failed = stage,
                   !.response = ErrorView(msg, q.youtube_url),
                   !.pc = "cleanup_local"]
Except(q, stage, msg) ==
    [q EXCEPT !.failed = stage,
              !.response = ErrorView(msg, q.youtube_url),
              !.pc = "cleanup_local"]

\* lines 105-107 and 109-121
Receive(r) ==
    /\ req[r].pc = "idle"
    /\ \E url \in Urls :
        IF IsFalsy(url)
        THEN /\ Set(r, [req[r] EXCEPT !.youtube_url = url,
                                      !.response = PromptView,
                                      !.pc = "returned"])
             /\ UNCHANGED <<files, objects, usedIds>>
        ELSE \E id \in Uuid4(usedIds) :
             /\ Set(r, [req[r] EXCEPT !.youtube_url = url,
                                      !.local_video_path = id,
                                      !.pc = "download"])
             /\ usedIds' = usedIds \cup {id}
             /\ UNCHANGED <<files, objects>>

\* history only: the calls made so far, and the artifacts written
Log(q, ev) == Append(q.trace, ev)
Wrote(q, what) == [q EXCEPT !.wrote = @ \cup {what}]

\* lines 131-137: ydl.download either returns or raises; in both cases the
\* file may or may not have been written to local_video_path
Download(r) ==
    /\ req[r].pc = "download"
    /\ LET q == [req[r] EXCEPT !.trace = Log(req[r], "download")]
           path == req[r].local_video_path
       IN \E written \in BOOLEAN, raised \in BOOLEAN :
          LET w == IF written THEN Wrote(q, "file") ELSE q IN
            /\ files' = IF written THEN files \cup {path} ELSE files
            /\ IF raised
               THEN Set(r, Except([w EXCEPT !.dl = "raised"], "download",
                                  DownloadFailedMsg("DownloadError")))
               ELSE Set(r, [w EXCEPT !.dl = IF written THEN "ok" ELSE "nofile",
                                     !.pc = "check"])
    /\ UNCHANGED <<objects, usedIds>>

\* line 140: `not os.path.exists(local_video_path)`
FileMissingNever(path, fs) == FALSE
FileMissing(path, fs) == path \notin fs

\* lines 140-143
CheckFile(r) ==
    /\ req[r].pc = "check"
    /\ IF FileMissing(req[r].local_video_path, files)
       THEN Set(r, Except(req[r], "missing", MissingFileMsg))
       ELSE Set(r, [req[r] EXCEPT !.pc = "upload"])
    /\ UNCHANGED <<files, objects, usedIds>>

\* line 147: the object key is derived from the same unique filename
BlobNameFixed(id) == 1
BlobName(id) == id

\* lines 147-153: gcs_blob_name is assigned before the upload is tried;
\* upload_from_filename needs the local file, and when it raises the object
\* may or may not have been written
Upload(r) ==
    /\ req[r].pc = "upload"
    /\ LET name == BlobName(req[r].local_video_path)
           q == [req[r] EXCEPT !.trace = Log(req[r], "upload"),
                               !.gcs_blob_name = name]
           readable == req[r].local_video_path \in files
       IN \E written \in {w \in BOOLEAN : w => readable}, raised \in BOOLEAN :
          LET w == IF written THEN Wrote(q, "object") ELSE q IN
            /\ ~written => raised
            /\ objects' = IF written THEN objects \cup {name} ELSE objects
            /\ IF raised
               THEN Set(r, Except(w, "upload", StrOf("UploadError")))
               ELSE Set(r, [w EXCEPT !.gcs_uri = name, !.pc = "infer"])
    /\ UNCHANGED <<files, usedIds>>

\* lines 156-169: one generate_content call on gcs_uri; it answers only if
\* the object is there
Infer(r, texts) ==
    /\ req[r].pc = "infer"
    /\ LET present == req[r].gcs_uri \in objects
           q == [req[r] EXCEPT !.trace = Log(req[r], "infer"),
                               !.inferSaw = present]
       IN \/ /\ present
             /\ \E t \in texts :
                  Set(r, [q EXCEPT !.response_text = t, !.pc = "parse"])
          \/ Set(r, Except(q, "infer", StrOf("InferenceError")))
    /\ UNCHANGED <<files, objects, usedIds>>

\* lines 172-173
Parse(r) ==
    /\ req[r].pc = "parse"
    /\ LET q == [req[r] EXCEPT !.trace = Log(req[r], "decode")]
           t == req[r].response_text
       IN IF JsonDecodable(t)
          THEN Set(r, [q EXCEPT !.results_data = json_loads(t),
                                !.pc = "default"])
          ELSE Set(r, Except(q, "parse", StrOf("JSONDecodeError")))
    /\ UNCHANGED <<files, objects, usedIds>>

\* lines 175-181: defaulting, then the success view is rendered; the
\* finally clause runs before the view is handed to the caller
Default(r) ==
    /\ req[r].pc = "default"
    /\ LET q == [req[r] EXCEPT !.trace = Log(req[r], "default")]
           v == req[r].results_data
       IN IF DefaultingRaises(v)
          THEN Set(r, Except(q, "default", StrOf("TypeError")))
          ELSE LET d == DictValue(Normalize(v.map))
               IN Set(r, [q EXCEPT !.results_data = d,
                                   !.response = ResultsView(d, q.youtube_url),
                                   !.pc = "cleanup_local"])
    /\ UNCHANGED <<files, objects, usedIds>>

\* lines 199-200: one handler for the whole cleanup block; it logs and
\* leaves the finally clause, so the pending view is returned
CleanupExceptMasking(q, where, e) ==
    [q EXCEPT !.cleanupFailed = where,
              !.response = ErrorView(StrOf(e), q.youtube_url),
              !.pc = "returned"]
CleanupExcept(q, where, e) ==
    [q EXCEPT !.cleanupFailed = where, !.pc = "returned"]

\* line 190
ShouldRemoveLocalInverted(path, fs) == path # NoneId /\ path \notin fs
ShouldRemoveLocal(path, fs) == path # NoneId /\ path \in fs

\* lines 189-192: os.remove either removes the file or raises; when it
\* raises, control leaves the try block of line 189
CleanupLocal(r) ==
    /\ req[r].pc = "cleanup_local"
    /\ LET q == [req[r] EXCEPT !.trace = Log(req[r], "cleanup_local")]
           path == req[r].local_video_path
       IN IF ShouldRemoveLocal(path, files)
          THEN \/ /\ files' = files \ {path}
                  /\ Set(r, [q EXCEPT !.pc = "cleanup_remote"])
               \/ /\ files' = files
                  /\ Set(r, CleanupExcept(q, "local", "OSError"))
          ELSE /\ files' = files
               /\ Set(r, [q EXCEPT !.pc = "cleanup_remote"])
    /\ UNCHANGED <<objects, usedIds>>

\* line 194
ShouldCleanRemote(name) == name # NoneId

\* lines 194-198: blob.exists() and blob.delete() may raise
CleanupRemote(r) ==
    /\ req[r].pc = "cleanup_remote"
    /\ LET name == req[r].gcs_blob_name
       IN IF ShouldCleanRemote(name)
          THEN LET q == [req[r] EXCEPT !.trace = Log(req[r], "cleanup_remote")]
               IN \/ /\ objects' = objects \ {name}
                     /\ Set(r, [q EXCEPT !.pc = "returned"])
                  \/ /\ objects' = objects
                     /\ Set(r, CleanupExcept(q, "remote", "GoogleAPIError"))
          ELSE /\ objects' = objects
               /\ Set(r, [req[r] EXCEPT !.pc = "returned"])
    /\ UNCHANGED <<files, usedIds>>

\* one step of the handler serving request r
Step(r, texts) ==
    \/ Receive(r)
    \/ Download(r)
    \/ CheckFile(r)
    \/ Upload(r)
    \/ Infer(r, texts)
    \/ Parse(r)
    \/ Default(r)
    \/ CleanupLocal(r)
    \/ CleanupRemote(r)

\* one request at a time
Next == \E r \in SingleRequest : Step(r, ModelTexts)
Spec == Init /\ [][Next]_vars

\* several requests served concurrently by the host
NextConc == \E r \in Requests : Step(r, ConcTexts)
SpecConc == Init /\ [][NextConc]_vars

TypeOK ==
    /\ files \subseteq Ids
    /\ objects \subseteq Ids
    /\ usedIds \subseteq Ids
    /\ \A r \in Requests : req[r].pc \in
         {"idle", "download", "check", "upload", "infer", "parse", "default",
          "cleanup_local", "cleanup_remote", "returned", "raised"}

\* ------------------------------------------------------------ properties
Finished(r) == req[r].pc \in {"returned", "raised"}
Called(r, ev) == \E i \in 1 .. Len(req[r].trace) : req[r].trace[i] = ev
\* the artifacts of request r: the path and the key carry its identifier
FileOf(r) == req[r].local_video_path
ObjectOf(r) == req[r].local_video_path
IsErrorView(v) == v.rendered /\ v.error # NoMsg /\ v.results = NoneValue
IsResultsView(v) == v.rendered /\ v.error = NoMsg /\ v.results.kind = "dict"
PipelineFailures == {"download", "missing", "upload", "infer", "parse", "default"}

\* C1: when exactly one failure is injected, at a pipeline stage (download
\* raising, file missing, upload, inference, JSON parsing, defaulting), the
\* handler returns the error view, does not raise, and neither the local
\* file nor the remote object of the request exists when it returns.
C1_FailureIsCleanedUp ==
    \A r \in Requests :
        (Finished(r) /\ req[r].failed \in PipelineFailures
                     /\ req[r].cleanupFailed = "none")
        => /\ req[r].pc = "returned"
           /\ IsErrorView(req[r].response)
           /\ FileOf(r) \notin files
           /\ ObjectOf(r) \notin objects

\* an upload that raised after both artifacts had been written, cleaned up
C1_Witness ==
    \E r \in Requests :
        /\ req[r].pc = "returned"
        /\ req[r].failed = "upload"
        /\ req[r].cleanupFailed = "none"
        /\ req[r].wrote = {"file", "object"}
        /\ FileOf(r) \notin files /\ ObjectOf(r) \notin objects

DecodedAll(r) ==
    /\ Called(r, "decode")
    /\ req[r].failed \notin {"download", "missing", "upload", "infer", "parse"}

\* C2: on every run in which download, upload, inference and JSON decoding
\* all succeed, the local file and the remote object are both gone when the
\* handler has returned.
C2_SuccessIsCleanedUp ==
    \A r \in Requests :
        (Finished(r) /\ DecodedAll(r))
        => FileOf(r) \notin files /\ ObjectOf(r) \notin objects

\* C3: the two deletions are independent: when removing the local file
\* fails the deletion of the remote object is still attempted, when the
\* remote deletion fails the local one was attempted, and no cleanup
\* failure reaches the caller.
C3_CleanupIndependent ==
    \A r \in Requests :
        Finished(r) =>
           /\ (req[r].cleanupFailed = "local" /\ req[r].gcs_blob_name # NoneId)
                 => Called(r, "cleanup_remote")
           /\ req[r].cleanupFailed = "remote" => Called(r, "cleanup_local")
           /\ req[r].cleanupFailed # "none" => req[r].pc = "returned"

\* C4: an absent or empty youtube_url returns the input form with the
\* prompt message; no download, upload or inference call is made and no
\* file or object is created or deleted.
C4_EmptyUrlDoesNothing ==
    \A r \in SingleRequest :
        (req[r].pc # "idle" /\ req[r].youtube_url \in {AbsentUrl, ""})
        => /\ req[r].pc = "returned"
           /\ req[r].response = PromptView
           /\ req[r].trace = << >>
           /\ req[r].wrote = {}
           /\ files = {} /\ objects = {}

C4_Witness ==
    \E r \in SingleRequest :
        req[r].pc = "returned" /\ req[r].youtube_url = ""
                               /\ req[r].response = PromptView

\* C5: when the download stage fails (the downloader raised, or returned
\* without a file at the expected path), no upload and no inference call is
\* made and no object is written for the request.
C5_NoUploadAfterFailedDownload ==
    \A r \in Requests :
        req[r].dl \in {"raised", "nofile"}
        => /\ ~Called(r, "upload") /\ ~Called(r, "infer")
           /\ "object" \notin req[r].wrote
           /\ ObjectOf(r) \notin objects

C5_Witness ==
    \E r \in Requests :
        req[r].pc = "returned" /\ req[r].dl = "nofile"
                               /\ req[r].failed = "missing"

\* the message of the exception each stage raises
StageMsg(stage) ==
    CASE stage = "download" -> DownloadFailedMsg("DownloadError")
      [] stage = "missing" -> MissingFileMsg
      [] stage = "upload" -> StrOf("UploadError")
      [] stage = "infer" -> StrOf("InferenceError")
      [] stage = "parse" -> StrOf("JSONDecodeError")
      [] stage = "default" -> StrOf("TypeError")

\* C6: a cleanup failure does not change the outcome: after a failed stage
\* the response is the error view with that stage's message, after a
\* successful pipeline it is the success view with the analysis result.
C6_CleanupFailureDoesNotMask ==
    \A r \in Requests :
        (Finished(r) /\ req[r].cleanupFailed # "none")
        => /\ req[r].pc = "returned"
           /\ IF req[r].failed # "none"
              THEN req[r].response =
                     ErrorView(StageMsg(req[r].failed), req[r].youtube_url)
              ELSE /\ IsResultsView(req[r].response)
                   /\ req[r].response.results = req[r].results_data
                   /\ req[r].response.youtube_url = req[r].youtube_url

C6_Witness ==
    \E r \in Requests :
        /\ req[r].pc = "returned"
        /\ req[r].cleanupFailed = "local"
        /\ req[r].failed = "infer"
        /\ req[r].response.error = StrOf("InferenceError")

\* C7: for a decoded answer that is a mapping, the rendered result is that
\* mapping with mentioned_risk set to the sentinel when absent and
\* credibility_score set to 5 when absent; every key present keeps its value.
C7_DefaultsOnlyWhenAbsent ==
    \A r \in Requests :
        (Called(r, "default") /\ req[r].response_text.kind = "object")
        => LET m == req[r].response_text.map
               out == req[r].response.results.map
           IN /\ IsResultsView(req[r].response)
              /\ DOMAIN out = DOMAIN m \cup {RiskKey, ScoreKey}
              /\ \A k \in DOMAIN m : out[k] = m[k]
              /\ RiskKey \notin DOMAIN m => out[RiskKey] = SENTINEL_RISK
              /\ ScoreKey \notin DOMAIN m => out[ScoreKey] = DEFAULT_SCORE

\* risk absent, score present with the falsy value 0
C7_Witness ==
    \E r \in Requests :
        /\ req[r].pc = "returned"
        /\ IsResultsView(req[r].response)
        /\ RiskKey \notin DOMAIN req[r].response_text.map
        /\ ScoreKey \in DOMAIN req[r].response_text.map
        /\ req[r].response.results.map[RiskKey] = SENTINEL_RISK
        /\ req[r].response.results.map[ScoreKey] = 0

\* C8: the defaulting step is idempotent: applying it to the mapping it
\* produced gives that mapping again.
C8_DefaultingIdempotent ==
    \A r \in Requests :
        (Called(r, "default") /\ req[r].results_data.kind = "dict")
        => Normalize(req[r].results_data.map) = req[r].results_data.map

C8_Witness ==
    \E r \in Requests :
        /\ Called(r, "default")
        /\ req[r].results_data.kind = "dict"
        /\ DOMAIN req[r].response_text.map = {NameKey}
        /\ DOMAIN req[r].results_data.map = {NameKey, RiskKey, ScoreKey}

Pipeline == <<"download", "upload", "infer", "decode", "default">>
CleanupTails == {<< >>, <<"cleanup_local">>, <<"cleanup_local", "cleanup_remote">>}
\* the stage at which each failure is raised, as an index of Pipeline
StageIndex(stage) ==
    CASE stage \in {"download", "missing"} -> 1
      [] stage = "upload" -> 2
      [] stage = "infer" -> 3
      [] stage = "parse" -> 4
      [] stage = "default" -> 5

\* C9: the stages run in the order download, upload, inference, decoding,
\* defaulting, each at most once; a stage starts only after the earlier ones
\* succeeded; a failure goes to cleanup and the error response with no later
\* stage run.
C9_LinearNoRetry ==
    \A r \in SingleRequest :
        LET t == req[r].trace
        IN /\ \E k \in 0 .. Len(Pipeline), c \in CleanupTails :
                /\ t = SubSeq(Pipeline, 1, k) \o c
                /\ c # << >> => (k = Len(Pipeline) \/ req[r].failed # "none")
                /\ req[r].failed # "none" => k = StageIndex(req[r].failed)
           /\ Called(r, "upload") => req[r].dl = "ok"
           /\ Called(r, "infer") => req[r].gcs_uri # NoneId
           /\ req[r].failed # "none"
                => /\ req[r].pc \in {"cleanup_local", "cleanup_remote", "returned"}
                   /\ IsErrorView(req[r].response)

C9_Witness ==
    \E r \in SingleRequest :
        /\ req[r].pc = "returned"
        /\ req[r].failed = "upload"
        /\ req[r].trace = <<"download", "upload", "cleanup_local", "cleanup_remote">>

\* C10: concurrent requests with distinct identifiers are isolated: every
\* file and object belongs to the request that wrote it, an artifact of an
\* in-flight request stays until that request's own cleanup, and inference
\* never runs on an object that is gone.
C10_Isolation ==
    /\ \A r1, r2 \in Requests :
          (r1 # r2 /\ FileOf(r1) # NoneId /\ FileOf(r2) # NoneId)
          => FileOf(r1) # FileOf(r2)
    /\ \A i \in files : \E r \in Requests : FileOf(r) = i /\ "file" \in req[r].wrote
    /\ \A i \in objects :
          \E r \in Requests : ObjectOf(r) = i /\ "object" \in req[r].wrote
    /\ \A r \in Requests :
          /\ (req[r].pc \in {"upload", "infer", "parse", "default"}
                \/ (req[r].pc = "cleanup_local" /\ "file" \in req[r].wrote))
             => FileOf(r) \in files
          /\ (req[r].pc \in {"infer", "parse", "default", "cleanup_local",
                             "cleanup_remote"} /\ "object" \in req[r].wrote)
             => ObjectOf(r) \in objects
          /\ (Called(r, "infer") /\ req[r].gcs_uri # NoneId) => req[r].inferSaw

\* one request is cleaning up its object while the other is at inference
C10_Witness ==
    \E r1, r2 \in Requests :
        /\ r1 # r2
        /\ req[r1].pc = "cleanup_remote" /\ "object" \in req[r1].wrote
        /\ req[r2].pc = "parse" /\ req[r2].inferSaw
        /\ files = {FileOf(r2)}
        /\ objects = {ObjectOf(r1), ObjectOf(r2)}

====
